---- MODULE Spec2Model ----
(***************************************************************************)
(* Model of calculate_calories.py: a linear script that sums the calories  *)
(* of a list of (food_name, calories) rows, prints an itemised report, and *)
(* compares the total with a backend value.                                *)
(*                                                                         *)
(* Numbers.  Every calorie literal of the script has at most two decimals, *)
(* so amounts are modelled as integers in hundredths (154.72 -> 15472).    *)
(* The script adds IEEE doubles; its running sum of the hardcoded list is   *)
(* 2839.9700000000003, within 5e-13 of the exact decimal sum, and every    *)
(* prefix sum formats with .2f to the same text as the exact sum does.     *)
(* Sub-hundredth float drift is not represented.                            *)
(*                                                                         *)
(* Text.  Strings are sequences of code points, as Python's len() and the  *)
(* format mini-language count them.  Module text is ASCII only, so the     *)
(* script's CJK literals are written as ASCII stand-ins with the same      *)
(* number of code points wherever that number enters a computation.        *)
(***************************************************************************)
EXTENDS Integers, Sequences, FiniteSets, TLC

VARIABLES
    nutrition_logs,   \* the list of <<food_name, calories>> rows (line 4)
    backend_value,    \* the value returned by the backend (line 42)
    total_calories,   \* the running sum (lines 29, 35)
    i,                \* number of rows the for loop has consumed (line 33)
    ui_display,       \* <<>> while unassigned, <<n>> once line 47 has run
    out,              \* lines written to standard output, in order
    pc                \* the statement about to run

vars == <<nutrition_logs, backend_value, total_calories, i, ui_display, out, pc>>

-----------------------------------------------------------------------------
(* Program constants *)

\* f"{food_name:<45}" and f"{'..':<45}": minimum width of the label field
LabelWidth == 45

\* f"{calories:>8.2f}": minimum width of the calories field
ValueWidth == 8

\* "-" * 50
RuleWidth == 50

\* Variant: a backend value 0.11 below the one in the script.
FixedBackendValueMismatch == 283997 - 11

\* backend_value = 2839.97, in hundredths
FixedBackendValue == 283997

\* The hardcoded rows, calories in hundredths.  Row 16's label is three CJK
\* code points in the script (U+6DEE U+5C71 U+9EB5); "HSM" stands in for it.
FixedLogs ==
    << <<"95% lean minced beef - HKMEATLO", 15472>>,
       <<"NOW Foods, Zinc Picolinat", 0>>,
       <<"Chicken Breast Fillet", 16500>>,
       <<"Natrol, Melatonin, Time Release, 3 mg", 0>>,
       <<"Broccoli", 5757>>,
       <<"Liquid Egg white", 11750>>,
       <<"white rice (uncooked)", 33750>>,
       <<"Sport research Omegas 3", 6000>>,
       <<"Redon1 Mre", 53000>>,
       <<"Canola oil", 5314>>,
       <<"Excellence Mint Intense Chocolate", 10700>>,
       <<"Mark and Spencer's protein bagel", 23706>>,
       <<"Life Extension, Two-Per-Day Multivitamin", 0>>,
       <<"California Gold Nutrition, CoQ10 with Bioperine", 0>>,
       <<"NOW Foods, NAC", 0>>,
       <<"HSM", 35151>>,
       <<"Life Extension, Super K", 0>>,
       <<"Fried Egg", 9000>>,
       <<"Alpen no added sugar (v3)", 27675>>,
       <<"Oatly Chocolate Oatmilk (updated)", 15111>>,
       <<"Oatly Chocolate Oatmilk (updated)", 15111>>,
       <<"Life Extension, Two-Per-Day Multivitamin", 0>> >>

\* Literal text of the print statements.  The script's literals are Chinese;
\* TotalLabel keeps the two code points of the original, which the padding
\* of line 38 depends on.  The others only prefix a line.
HeaderText == "Calorie breakdown:"
TotalLabel == "TL"
RoundedPrefix == "Rounded: "
BackendPrefix == "Backend API: "
DifferencePrefix == "Difference: "
UiPrefix == "UI display (rounded): "
CalSuffix == " cal"

-----------------------------------------------------------------------------
(* Input domain of the model *)

\* longest list drawn besides the hardcoded one
MaxLen == 3

\* Rows the short lists are built from: a tie-making half, a whole, a zero
\* row with the script's 47-character label, a negative row, and a row
\* whose label is exactly LabelWidth characters long.
SampleEntries ==
    { <<"Canola oil", 50>>,
      <<"Fried Egg", 100>>,
      <<"California Gold Nutrition, CoQ10 with Bioperine", 0>>,
      <<"Broccoli", -151>>,
      <<"Life Extension, Two-Per-Day Multivitamin (v2)", 249>> }

SeqsUpTo(S, n) == UNION { [1..k -> S] : k \in 0..n }

InputLogs == {FixedLogs} \cup SeqsUpTo(SampleEntries, MaxLen)

InputBackendValues == {FixedBackendValue, 150, 0}

-----------------------------------------------------------------------------
(* Pure helpers: arithmetic *)

\* abs(x)
Abs(x) == IF x < 0 THEN -x ELSE x

\* Variant: the magnitude of the calories is added.
AddAbs(total, calories) == total + (IF calories < 0 THEN -calories ELSE calories)

\* total_calories += calories
Add(total, calories) == total + calories

\* Variant: int(x), truncation toward zero, instead of round(x).
RoundTruncate(h) == IF h >= 0 THEN h \div 100 ELSE -((-h) \div 100)

\* Variant: floor(x + 0.5), ties upward, instead of ties to even.
RoundHalfUp(h) == (h + 50) \div 100

\* round(x) of a value given in hundredths: nearest integer, ties to even.
\* \div is floor division and % is non-negative, also for negative h.
Round(h) ==
    LET q == h \div 100
        r == h % 100
    IN  IF r < 50 THEN q
        ELSE IF r > 50 THEN q + 1
        ELSE IF q % 2 = 0 THEN q ELSE q + 1

\* Variant: the abs() is left out.
DifferenceSigned(total, reference) == total - reference

\* abs(total_calories - backend_value)
Difference(total, reference) == Abs(total - reference)

-----------------------------------------------------------------------------
(* Pure helpers: text *)

RECURSIVE Repeat(_, _)
\* s * n
Repeat(s, n) == IF n <= 0 THEN "" ELSE s \o Repeat(s, n - 1)

DigitChars == "0123456789"

Digit(d) == SubSeq(DigitChars, d + 1, d + 1)

RECURSIVE Digits(_)
\* decimal digits of a natural number
Digits(n) == IF n < 10 THEN Digit(n) ELSE Digits(n \div 10) \o Digit(n % 10)

\* str(n) of an int, as an f-string field {n}
FormatInt(n) == IF n < 0 THEN "-" \o Digits(-n) ELSE Digits(n)

\* format(x, ".2f") of a value given in hundredths
FormatFixed2(h) ==
    LET a == Abs(h)
    IN  (IF h < 0 THEN "-" ELSE "")
        \o Digits(a \div 100) \o "." \o Digit((a % 100) \div 10) \o Digit(a % 10)

\* Variant: the width is also a maximum, as with s[:w].ljust(w).
AlignLeftTruncate(s, w) ==
    IF Len(s) >= w THEN SubSeq(s, 1, w) ELSE s \o Repeat(" ", w - Len(s))

\* format(s, "<w"): w is a minimum width; a longer s is emitted whole
AlignLeft(s, w) == IF Len(s) >= w THEN s ELSE s \o Repeat(" ", w - Len(s))

\* format(s, ">w")
AlignRight(s, w) == IF Len(s) >= w THEN s ELSE Repeat(" ", w - Len(s)) \o s

\* f"{label:<45} {value:>8.2f} cal" (lines 34 and 38)
RowText(label, value) ==
    AlignLeft(label, LabelWidth) \o " "
    \o AlignRight(FormatFixed2(value), ValueWidth) \o CalSuffix

Line(kind, text) == [kind |-> kind, text |-> text]

-----------------------------------------------------------------------------
(* The script, one action per statement *)

Init ==
    /\ nutrition_logs \in InputLogs
    /\ backend_value \in InputBackendValues
    /\ total_calories = 0
    /\ i = 0
    /\ ui_display = <<>>
    /\ out = <<>>
    /\ pc = "header"

\* line 30
PrintHeader ==
    /\ pc = "header"
    /\ out' = Append(out, Line("header", HeaderText))
    /\ pc' = "rule"
    /\ UNCHANGED <<nutrition_logs, backend_value, total_calories, i, ui_display>>

\* line 31
PrintRule ==
    /\ pc = "rule"
    /\ out' = Append(out, Line("rule", Repeat("-", RuleWidth)))
    /\ pc' = "loop"
    /\ UNCHANGED <<nutrition_logs, backend_value, total_calories, i, ui_display>>

\* Variant: lines 37-38 indented into the loop body.
LoopIterIndented ==
    /\ pc = "loop"
    /\ i < Len(nutrition_logs)
    /\ LET food_name == nutrition_logs[i + 1][1]
           calories == nutrition_logs[i + 1][2]
       IN  /\ total_calories' = Add(total_calories, calories)
           /\ out' = out \o << Line("entry", RowText(food_name, calories)),
                               Line("rule", Repeat("-", RuleWidth)),
                               Line("total", RowText(TotalLabel, total_calories')) >>
    /\ i' = i + 1
    /\ UNCHANGED <<nutrition_logs, backend_value, ui_display, pc>>

\* Variant: a row with negative calories stops the run.
LoopIterRejectNegative ==
    /\ pc = "loop"
    /\ i < Len(nutrition_logs)
    /\ nutrition_logs[i + 1][2] >= 0
    /\ LET food_name == nutrition_logs[i + 1][1]
           calories == nutrition_logs[i + 1][2]
       IN  /\ out' = Append(out, Line("entry", RowText(food_name, calories)))
           /\ total_calories' = Add(total_calories, calories)
    /\ i' = i + 1
    /\ UNCHANGED <<nutrition_logs, backend_value, ui_display, pc>>

\* lines 33-35: one iteration of the for loop
LoopIter ==
    /\ pc = "loop"
    /\ i < Len(nutrition_logs)
    /\ LET food_name == nutrition_logs[i + 1][1]
           calories == nutrition_logs[i + 1][2]
       IN  /\ out' = Append(out, Line("entry", RowText(food_name, calories)))
           /\ total_calories' = Add(total_calories, calories)
    /\ i' = i + 1
    /\ UNCHANGED <<nutrition_logs, backend_value, ui_display, pc>>

\* Variant: the summary is guarded by `if nutrition_logs:`.
PrintSeparatorSkipEmpty ==
    /\ pc = "loop"
    /\ i >= Len(nutrition_logs)
    /\ Len(nutrition_logs) > 0
    /\ out' = Append(out, Line("rule", Repeat("-", RuleWidth)))
    /\ pc' = "total"
    /\ UNCHANGED <<nutrition_logs, backend_value, total_calories, i, ui_display>>

\* line 33 exhausted, then line 37
PrintSeparator ==
    /\ pc = "loop"
    /\ i >= Len(nutrition_logs)
    /\ out' = Append(out, Line("rule", Repeat("-", RuleWidth)))
    /\ pc' = "total"
    /\ UNCHANGED <<nutrition_logs, backend_value, total_calories, i, ui_display>>

\* line 38
PrintTotal ==
    /\ pc = "total"
    /\ out' = Append(out, Line("total", RowText(TotalLabel, total_calories)))
    /\ pc' = "rounded"
    /\ UNCHANGED <<nutrition_logs, backend_value, total_calories, i, ui_display>>

\* line 39
PrintRounded ==
    /\ pc = "rounded"
    /\ out' = Append(out, Line("rounded",
                 RoundedPrefix \o FormatInt(Round(total_calories)) \o CalSuffix))
    /\ pc' = "backend"
    /\ UNCHANGED <<nutrition_logs, backend_value, total_calories, i, ui_display>>

\* lines 42-43: the text starts with a newline, so a blank line comes first
PrintBackend ==
    /\ pc = "backend"
    /\ out' = out \o << Line("blank", ""),
                        Line("backend",
                             BackendPrefix \o FormatFixed2(backend_value) \o CalSuffix) >>
    /\ pc' = "difference"
    /\ UNCHANGED <<nutrition_logs, backend_value, total_calories, i, ui_display>>

\* Variant: the backend value is overwritten with the total.
PrintDifferenceReconcile ==
    /\ pc = "difference"
    /\ out' = Append(out, Line("difference",
                 DifferencePrefix
                 \o FormatFixed2(Difference(total_calories, backend_value))
                 \o CalSuffix))
    /\ backend_value' = total_calories
    /\ pc' = "ui"
    /\ UNCHANGED <<nutrition_logs, total_calories, i, ui_display>>

\* line 44
PrintDifference ==
    /\ pc = "difference"
    /\ out' = Append(out, Line("difference",
                 DifferencePrefix
                 \o FormatFixed2(Difference(total_calories, backend_value))
                 \o CalSuffix))
    /\ pc' = "ui"
    /\ UNCHANGED <<nutrition_logs, backend_value, total_calories, i, ui_display>>

\* lines 47-48
PrintUi ==
    /\ pc = "ui"
    /\ ui_display' = <<Round(total_calories)>>
    /\ out' = Append(out, Line("ui", UiPrefix \o FormatInt(ui_display'[1]) \o CalSuffix))
    /\ pc' = "done"
    /\ UNCHANGED <<nutrition_logs, backend_value, total_calories, i>>

Next ==
    \/ PrintHeader
    \/ PrintRule
    \/ LoopIter
    \/ PrintSeparator
    \/ PrintTotal
    \/ PrintRounded
    \/ PrintBackend
    \/ PrintDifference
    \/ PrintUi

Spec == Init /\ [][Next]_vars

\* The interpreter runs the next statement whenever there is one.
FairSpec == Spec /\ WF_vars(Next)

-----------------------------------------------------------------------------
(* Vocabulary of the properties *)

RECURSIVE SumCalories(_)
SumCalories(rows) ==
    IF rows = <<>> THEN 0 ELSE rows[1][2] + SumCalories(Tail(rows))

Kinds == [k \in 1..Len(out) |-> out[k].kind]

\* positions of the output lines of one kind
At(kind) == {k \in 1..Len(out) : out[k].kind = kind}

ExpectedKinds(n) ==
    <<"header", "rule">> \o [k \in 1..n |-> "entry"]
    \o <<"rule", "total", "rounded", "blank", "backend", "difference", "ui">>

IsPrefix(s, t) == Len(s) <= Len(t) /\ s = SubSeq(t, 1, Len(s))

Spaces(n) == Repeat(" ", n)

Max(a, b) == IF a >= b THEN a ELSE b

SummaryKinds == {"total", "rounded", "blank", "backend", "difference", "ui"}

PcValues ==
    {"header", "rule", "loop", "total", "rounded", "backend", "difference", "ui", "done"}

TypeOK ==
    /\ nutrition_logs \in InputLogs
    /\ backend_value \in Int
    /\ total_calories \in Int
    /\ i \in 0..Len(nutrition_logs)
    /\ Len(ui_display) <= 1
    /\ pc \in PcValues

-----------------------------------------------------------------------------
\* C1: in every state total_calories is the sum of the calories of the first
\* i rows of nutrition_logs, one entry line has been printed per processed
\* row, and once the loop is over the total is the sum of all rows, duplicate
\* labels included.
C1_RunningSum ==
    /\ i \in 0..Len(nutrition_logs)
    /\ total_calories = SumCalories(SubSeq(nutrition_logs, 1, i))
    /\ Cardinality(At("entry")) = i
    /\ pc \notin {"header", "rule", "loop"} =>
           /\ i = Len(nutrition_logs)
           /\ total_calories = SumCalories(nutrition_logs)

\* Both "Oatly Chocolate Oatmilk (updated)" rows (20 and 21) have been added.
C1_Witness ==
    /\ nutrition_logs = FixedLogs
    /\ pc = "loop"
    /\ i = 21
    /\ nutrition_logs[20] = nutrition_logs[21]
    /\ total_calories = 283997

-----------------------------------------------------------------------------
\* C2 as stated: for the hardcoded list the total is 2839.86 and the printed
\* difference from the backend value 2839.97 is 0.11.
C2_AsStated ==
    (nutrition_logs = FixedLogs /\ backend_value = FixedBackendValue /\ pc = "done") =>
        /\ total_calories = 283986
        /\ \A k \in At("difference") : out[k].text = DifferencePrefix \o "0.11" \o CalSuffix

\* C2 amended: for the hardcoded list the total is 2839.97, the totals line
\* shows 2839.97, and the printed difference from the backend value 2839.97
\* is 0.00.
C2_FixedTotal ==
    (nutrition_logs = FixedLogs /\ backend_value = FixedBackendValue /\ pc = "done") =>
        /\ total_calories = 283997
        /\ At("total") # {}
        /\ \A k \in At("total") :
               out[k].text = TotalLabel \o Spaces(43) \o " " \o " 2839.97" \o " cal"
        /\ At("difference") # {}
        /\ \A k \in At("difference") : out[k].text = DifferencePrefix \o "0.00" \o CalSuffix

C2_Witness ==
    /\ nutrition_logs = FixedLogs
    /\ backend_value = FixedBackendValue
    /\ pc = "done"
    /\ Len(nutrition_logs) = 22

-----------------------------------------------------------------------------
\* C3: for the hardcoded list the rounded total is 2840, on the rounded-total
\* line and on the UI display line.
C3_FixedRounded ==
    nutrition_logs = FixedLogs =>
        /\ \A k \in At("rounded") : out[k].text = RoundedPrefix \o "2840" \o CalSuffix
        /\ \A k \in At("ui") : out[k].text = UiPrefix \o "2840" \o CalSuffix
        /\ ui_display \in {<<>>, <<2840>>}
        /\ pc = "done" =>
               /\ Cardinality(At("rounded")) = 1
               /\ Cardinality(At("ui")) = 1
               /\ ui_display = <<2840>>

C3_Witness ==
    /\ nutrition_logs = FixedLogs
    /\ pc = "done"
    /\ ui_display = <<2840>>
    /\ At("rounded") # {}

-----------------------------------------------------------------------------
\* The label and value of the row that entry line k reports.
EntryRow(k) == nutrition_logs[k - 2]

\* C4 as stated: every entry line has a label field of exactly 45 characters
\* (padded or truncated), so the separating space is at column 46 and the
\* calories field always starts at column 47.
C4_AsStated ==
    \A k \in At("entry") :
        LET label == EntryRow(k)[1]
            text == out[k].text
            field == IF Len(label) <= 45
                     THEN label \o Spaces(45 - Len(label))
                     ELSE SubSeq(label, 1, 45)
        IN  /\ SubSeq(text, 1, 45) = field
            /\ SubSeq(text, 46, 46) = " "
            /\ SubSeq(text, 47, Len(text)) =
                   AlignRight(FormatFixed2(EntryRow(k)[2]), ValueWidth) \o CalSuffix

\* C4 amended: the label field is at least 45 characters wide: a label of at
\* most 45 characters is right-padded with spaces to 45, a longer label is
\* emitted whole and is not truncated; the calories field starts two columns
\* after the label field, at column max(45, len(label)) + 2.
C4_LabelField ==
    \A k \in At("entry") :
        LET label == EntryRow(k)[1]
            text == out[k].text
            w == Max(45, Len(label))
        IN  /\ SubSeq(text, 1, Len(label)) = label
            /\ SubSeq(text, 1, w) = label \o Spaces(w - Len(label))
            /\ SubSeq(text, w + 1, w + 1) = " "
            /\ SubSeq(text, w + 2, Len(text)) =
                   AlignRight(FormatFixed2(EntryRow(k)[2]), ValueWidth) \o CalSuffix
            /\ Len(text) = w + 1 + 8 + 4

\* The 47-character label of row 14 and the 8-character label of row 5 have
\* both been printed.
C4_Witness ==
    /\ nutrition_logs = FixedLogs
    /\ i >= 14
    /\ Len(out) >= 16
    /\ Len(EntryRow(16)[1]) = 47
    /\ Len(out[16].text) = 60
    /\ Len(out[7].text) = 58

-----------------------------------------------------------------------------
\* C5: the difference line reports |total - backend_value|: never negative,
\* 0.00 exactly when the two are equal, the same amount whether the total is
\* above or below; the backend line shows backend_value itself.
C5_Difference ==
    /\ \A k \in At("difference") :
           LET d == IF total_calories >= backend_value
                    THEN total_calories - backend_value
                    ELSE backend_value - total_calories
               shown == SubSeq(out[k].text, Len(DifferencePrefix) + 1, Len(out[k].text))
           IN  /\ shown = FormatFixed2(d) \o CalSuffix
               /\ SubSeq(shown, 1, 1) # "-"
               /\ (shown = "0.00" \o CalSuffix) <=> (total_calories = backend_value)
    /\ \A k \in At("backend") :
           out[k].text = BackendPrefix \o FormatFixed2(backend_value) \o CalSuffix
    /\ pc = "done" => Cardinality(At("difference")) = 1 /\ Cardinality(At("backend")) = 1

\* A total one whole calorie below the backend value 1.50 has been reported.
C5_Witness ==
    /\ pc = "done"
    /\ backend_value = 150
    /\ total_calories = 50
    /\ \E k \in At("difference") : out[k].text = DifferencePrefix \o "1.00" \o CalSuffix

-----------------------------------------------------------------------------
EmptyRunDone ==
    /\ pc = "done"
    /\ i = 0
    /\ total_calories = 0
    /\ ui_display = <<0>>
    /\ Kinds = ExpectedKinds(0)
    /\ out[4].text = TotalLabel \o Spaces(43) \o " " \o "    0.00" \o " cal"
    /\ out[5].text = RoundedPrefix \o "0" \o CalSuffix
    /\ out[9].text = UiPrefix \o "0" \o CalSuffix

\* C6: with an empty list the loop body never runs, no entry line is ever
\* printed and the total stays 0; the run completes with header, rules,
\* totals line (0.00), rounded total (0) and the comparison lines.
C6_EmptyList ==
    /\ [](nutrition_logs = <<>> => (i = 0 /\ total_calories = 0 /\ At("entry") = {}))
    /\ (nutrition_logs = <<>>) ~> EmptyRunDone

C6_Witness ==
    /\ nutrition_logs = <<>>
    /\ EmptyRunDone

-----------------------------------------------------------------------------
\* C7: the rounded total is the nearest integer to the total, a tie going to
\* the even neighbour: 0.50 -> 0, 1.50 -> 2, 2.50 -> 2, and off a tie the
\* result is less than 0.5 away from the total.
C7_RoundHalfEven ==
    /\ ui_display # <<>> =>
           LET r == ui_display[1]
               d == 100 * r - total_calories
           IN  /\ d \in -50..50
               /\ d \in {-50, 50} => r % 2 = 0
               /\ total_calories % 100 # 50 => d \in -49..49
               /\ total_calories = 50 => r = 0
               /\ total_calories = 150 => r = 2
               /\ total_calories = 250 => r = 2
    /\ \A k \in At("rounded") :
           \E r \in (total_calories \div 100 - 1)..(total_calories \div 100 + 1) :
               /\ out[k].text = RoundedPrefix \o FormatInt(r) \o CalSuffix
               /\ 100 * r - total_calories \in -50..50
               /\ 100 * r - total_calories \in {-50, 50} => r % 2 = 0

\* 2.50 has been rounded down to the even 2.
C7_Witness ==
    /\ pc = "done"
    /\ total_calories = 250
    /\ ui_display = <<2>>

-----------------------------------------------------------------------------
\* C8: the output is always a prefix of header, rule, one line per row in
\* list order, rule, total, rounded, (blank,) backend, difference, ui; no
\* line after the entry lines appears before every row has been added, and
\* the totals line shows the complete sum.
C8_OutputOrder ==
    /\ IsPrefix(Kinds, ExpectedKinds(Len(nutrition_logs)))
    /\ pc = "done" => Kinds = ExpectedKinds(Len(nutrition_logs))
    /\ \A k \in At("entry") :
           /\ k - 2 \in 1..i
           /\ out[k].text = RowText(EntryRow(k)[1], EntryRow(k)[2])
    /\ \A k \in 1..Len(out) :
           (out[k].kind \in SummaryKinds \/ (out[k].kind = "rule" /\ k > 2)) =>
               /\ i = Len(nutrition_logs)
               /\ total_calories = SumCalories(nutrition_logs)
    /\ \A k \in At("total") :
           out[k].text = RowText(TotalLabel, SumCalories(nutrition_logs))

\* A finished run over three rows, the first two different.
C8_Witness ==
    /\ pc = "done"
    /\ Len(nutrition_logs) = 3
    /\ nutrition_logs[1] # nutrition_logs[2]
    /\ Len(out) = 12

-----------------------------------------------------------------------------
\* C9: every run reaches the end of the script, with exactly one loop
\* iteration and one entry line per row; zero and negative calories are
\* added as they are; the script is never anywhere but at one of its
\* statements.
C9_Terminates ==
    /\ <>(pc = "done")
    /\ [](pc \in PcValues)
    /\ [](pc = "done" =>
            /\ i = Len(nutrition_logs)
            /\ Cardinality(At("entry")) = Len(nutrition_logs)
            /\ total_calories = SumCalories(nutrition_logs))

\* A finished run over a list with a negative and a zero row.
C9_Witness ==
    /\ pc = "done"
    /\ \E k \in 1..Len(nutrition_logs) : nutrition_logs[k][2] < 0
    /\ \E k \in 1..Len(nutrition_logs) : nutrition_logs[k][2] = 0
    /\ total_calories < 0

-----------------------------------------------------------------------------
\* C10: no step changes the entry list or the backend value.
C10_InputsUnchanged ==
    [][nutrition_logs' = nutrition_logs /\ backend_value' = backend_value]_vars

\* A finished run whose total differs from the backend value, which is
\* still one of the supplied values.
C10_Witness ==
    /\ pc = "done"
    /\ nutrition_logs # <<>>
    /\ total_calories # backend_value
    /\ backend_value \in InputBackendValues

====
